---- MODULE Spec2Model ----
(***************************************************************************)
(* The Blackjack engine of src/blackjack.py as a state machine.            *)
(*                                                                         *)
(* Spec      the engine: the constructor's implicit reset, then any        *)
(*           sequence of reset and play_action calls, rejected calls       *)
(*           included.  Each call is one atomic step; the dealer's whole   *)
(*           draw loop is part of the STICK step.                          *)
(* SpecHand  the hand evaluator alone, applied to every hand of up to      *)
(*           MaxLen cards over the 13 faces of the deck.                   *)
(* SpecPlayer  the player's side of a hand with the player's cards drawn   *)
(*           from all 13 faces: construction, then up to MaxAnyHits HITs.  *)
(***************************************************************************)
EXTENDS Integers, Sequences, FiniteSets, TLC

VARIABLES
    player_cards,   \* Blackjack.player_cards: sequence of Card
    dealer_cards,   \* Blackjack.dealer_cards: sequence of Card
    turn,           \* Blackjack.turn: "player" or "dealer"
    in_play,        \* Blackjack.in_play
    last_call,      \* the call that produced this state: "__init__", "reset", "HIT", "STICK"
    raised,         \* TRUE iff the last call ended in AssertionError
    returned,       \* the pair <<state, reward>> the last call returned, <<>> if it raised
    draws           \* the cards the last call took from deck.draw_card(), in order

vars == <<player_cards, dealer_cards, turn, in_play, last_call, raised, returned, draws>>

----------------------------------------------------------------------------
(* Bounds of the exploration.                                              *)

\* play_action(HIT) is explored while the player holds fewer than 2 + MaxHits cards
MaxHits == 3
\* play_action(STICK) is explored for dealer loops of at most this many draws
MaxDealerDraws == 3
\* SpecHand evaluates hands of at most this many cards
MaxLen == 4
\* SpecPlayer explores play_action(HIT) while the player holds fewer than
\* 2 + MaxAnyHits cards
MaxAnyHits == 2

----------------------------------------------------------------------------
(* Cards and the deck.                                                     *)

Card(face, value) == [face |-> face, value |-> value]

\* Deck.cards, in the order of the source
cards ==
    << Card("A", 1),
       Card("2", 2), Card("3", 3), Card("4", 4), Card("5", 5), Card("6", 6),
       Card("7", 7), Card("8", 8), Card("9", 9), Card("10", 10),
       Card("J", 10), Card("Q", 10), Card("K", 10) >>

\* every card rand.choice(self.cards) can return
all_cards == {cards[i] : i \in 1..Len(cards)}

\* The faces whose draws Spec explores: an Ace, a card that makes hard totals of
\* 12 to 16 and 22 to 26 (6) and a ten-valued face.  rand.choice can return any
\* of the 13; SpecHand evaluates hands over all of them.
explored_faces == {"A", "6", "K"}

\* Deck.draw_card: the outcomes of rand.choice explored by Spec
draw_card == {c \in all_cards : c.face \in explored_faces}

BlackjackAction == {"HIT", "STICK"}

----------------------------------------------------------------------------
(* The hand evaluator.                                                     *)

RECURSIVE value_sum(_)
\* sum(card.value for card in cards)
value_sum(hand) ==
    IF hand = <<>> THEN 0 ELSE hand[1].value + value_sum(Tail(hand))

\* the cards of hand whose face is (keep = TRUE) or is not (keep = FALSE) 'A'
aces(hand, keep) == SelectSeq(hand, LAMBDA c : (c.face = "A") = keep)

RECURSIVE promote_aces_below_11(_, _)
\* faulty variant of promote_aces: promotes only below 11, so A+K stays 11
promote_aces_below_11(hand_sum, n) ==
    IF n = 0 THEN hand_sum
    ELSE promote_aces_below_11(IF hand_sum < 11 THEN hand_sum + 10 ELSE hand_sum, n - 1)

RECURSIVE promote_aces(_, _)
\* for _ in range(n): if hand_sum <= 11: hand_sum += 10
promote_aces(hand_sum, n) ==
    IF n = 0 THEN hand_sum
    ELSE promote_aces(IF hand_sum <= 11 THEN hand_sum + 10 ELSE hand_sum, n - 1)

\* faulty variant of get_hand_sum: tests the hard total once and then promotes
\* every Ace
get_hand_sum_every_ace(hand) ==
    LET non_ace_sum == value_sum(aces(hand, FALSE))
        num_aces    == Len(aces(hand, TRUE))
        hand_sum    == non_ace_sum + num_aces
    IN  IF hand_sum <= 11 THEN hand_sum + 10 * num_aces ELSE hand_sum

\* Blackjack.get_hand_sum
get_hand_sum(hand) ==
    LET non_ace_sum == value_sum(aces(hand, FALSE))
        num_aces    == Len(aces(hand, TRUE))
    IN  promote_aces(non_ace_sum + num_aces, num_aces)

dealer_sum == get_hand_sum(dealer_cards)

player_sum == get_hand_sum(player_cards)

\* faulty variant of hand_usable_ace: a hard total of 11 already counts as too high
hand_usable_ace_from_11(hand) ==
    IF ~(\E i \in 1..Len(hand) : hand[i].face = "A") THEN FALSE
    ELSE IF value_sum(hand) >= 11 THEN FALSE
    ELSE TRUE

\* faulty variant of hand_usable_ace: a hard total of 12 still counts as usable
hand_usable_ace_above_12(hand) ==
    IF ~(\E i \in 1..Len(hand) : hand[i].face = "A") THEN FALSE
    ELSE IF value_sum(hand) > 12 THEN FALSE
    ELSE TRUE

\* Blackjack.usable_ace, of any hand
hand_usable_ace(hand) ==
    IF ~(\E i \in 1..Len(hand) : hand[i].face = "A") THEN FALSE
    ELSE IF value_sum(hand) >= 12 THEN FALSE
    ELSE TRUE

usable_ace == hand_usable_ace(player_cards)

\* faulty variant of dealer_showing: the first dealt card is shown
dealer_showing_first == dealer_cards[1]

\* Blackjack.dealer_showing: the second dealt card (Python index 1)
dealer_showing == dealer_cards[2]

\* Blackjack.state
state ==
    [player_sum     |-> player_sum,
     usable_ace     |-> usable_ace,
     dealer_showing |-> dealer_showing.value,
     terminal       |-> ~in_play]

\* Python's range(a, b)
range(a, b) == a..(b - 1)

\* BlackjackState(*tup)
BlackjackState(tup) ==
    [player_sum     |-> tup[1],
     usable_ace     |-> tup[2],
     dealer_showing |-> tup[3],
     terminal       |-> tup[4]]

\* faulty variant of all_states: the player sums stop at 29
all_states_to_29 ==
    {BlackjackState(tup) :
        tup \in {<<p, u, d, t>> : p \in range(2, 30), u \in {FALSE, TRUE},
                                 d \in range(1, 11), t \in {FALSE, TRUE}}}

\* BlackjackState.all_states: set(cls(*tup) for tup in product(range(2, 31),
\* [False, True], range(1, 11), [False, True]))
all_states ==
    {BlackjackState(tup) :
        tup \in {<<p, u, d, t>> : p \in range(2, 31), u \in {FALSE, TRUE},
                                 d \in range(1, 11), t \in {FALSE, TRUE}}}

----------------------------------------------------------------------------
(* The engine.                                                             *)

\* faulty variant of natural: a dealer who also holds 21 cancels the natural
natural_unless_dealer == player_sum = 21 /\ dealer_sum # 21

\* reset, line 95: the two dealt cards are a natural
natural == player_sum = 21

\* faulty variant of reset: the turn marker is not set back to 'player'
reset_keeps_turn ==
    \E p1 \in draw_card, p2 \in draw_card, d1 \in draw_card, d2 \in draw_card :
        /\ UNCHANGED turn
        /\ player_cards' = <<p1, p2>>
        /\ dealer_cards' = <<d1, d2>>
        /\ draws' = <<p1, p2, d1, d2>>
        /\ in_play' = ~natural'
        /\ returned' = <<state', IF natural' THEN 1 ELSE 0>>
        /\ raised' = FALSE
        /\ last_call' = "reset"

\* faulty variant of reset: on a natural the state is read before in_play is
\* cleared
reset_reads_state_early ==
    \E p1 \in draw_card, p2 \in draw_card, d1 \in draw_card, d2 \in draw_card :
        /\ turn' = "player"
        /\ player_cards' = <<p1, p2>>
        /\ dealer_cards' = <<d1, d2>>
        /\ draws' = <<p1, p2, d1, d2>>
        /\ in_play' = ~natural'
        /\ returned' = <<[state' EXCEPT !.terminal = FALSE], IF natural' THEN 1 ELSE 0>>
        /\ raised' = FALSE
        /\ last_call' = "reset"

\* Blackjack.reset, with deal_hands
reset ==
    \E p1 \in draw_card, p2 \in draw_card, d1 \in draw_card, d2 \in draw_card :
        /\ turn' = "player"
        /\ player_cards' = <<p1, p2>>
        /\ dealer_cards' = <<d1, d2>>
        /\ draws' = <<p1, p2, d1, d2>>
        /\ in_play' = ~natural'
        /\ returned' = <<state', IF natural' THEN 1 ELSE 0>>
        /\ raised' = FALSE
        /\ last_call' = "reset"

\* Blackjack.__init__: the state after construction is the state after the
\* implicit reset; returned holds what that reset returned to the constructor
constructed(p1, p2, d1, d2) ==
    /\ turn = "player"
    /\ player_cards = <<p1, p2>>
    /\ dealer_cards = <<d1, d2>>
    /\ draws = <<p1, p2, d1, d2>>
    /\ in_play = ~natural
    /\ returned = <<state, IF natural THEN 1 ELSE 0>>
    /\ raised = FALSE
    /\ last_call = "__init__"

Init ==
    \E p1 \in draw_card, p2 \in draw_card, d1 \in draw_card, d2 \in draw_card :
        constructed(p1, p2, d1, d2)

\* faulty variant of game_over: the assertion is missing
game_over_unchecked == FALSE

\* play_action, line 159: the assertion self.in_play fails
game_over == ~in_play

\* faulty variant of dealer_hits: the dealer already stands on 16
dealer_hits_below_16(hand) == get_hand_sum(hand) < 16

\* faulty variant of dealer_hits: the dealer also hits on 17
dealer_hits_on_17(hand) == get_hand_sum(hand) <= 17

\* play_action, line 164: the dealer's loop condition
dealer_hits(hand) == get_hand_sum(hand) < 17

RECURSIVE dealer_loop(_, _)
\* play_action, lines 164-165: every dealer hand the loop can end with, drawing
\* at most fuel cards
dealer_loop(hand, fuel) ==
    IF dealer_hits(hand)
    THEN IF fuel = 0 THEN {}
         ELSE UNION {dealer_loop(Append(hand, c), fuel - 1) : c \in draw_card}
    ELSE {hand}

\* play_action, lines 169-178: the settlement
settle(d_sum, p_sum) ==
    IF d_sum > 21 THEN 1
    ELSE IF d_sum > p_sum THEN -1
    ELSE IF d_sum < p_sum THEN 1
    ELSE 0

\* faulty variant of stick: the dealer's draws are put in front of its hand
stick_prepends ==
    \E final \in dealer_loop(dealer_cards, MaxDealerDraws) :
        /\ turn' = "dealer"
        /\ dealer_cards' = SubSeq(final, Len(dealer_cards) + 1, Len(final)) \o dealer_cards
        /\ draws' = SubSeq(final, Len(dealer_cards) + 1, Len(final))
        /\ in_play' = FALSE
        /\ UNCHANGED player_cards
        /\ returned' = <<state', settle(dealer_sum', player_sum')>>
        /\ raised' = FALSE
        /\ last_call' = "STICK"

\* play_action, the STICK branch
stick ==
    \E final \in dealer_loop(dealer_cards, MaxDealerDraws) :
        /\ turn' = "dealer"
        /\ dealer_cards' = final
        /\ draws' = SubSeq(final, Len(dealer_cards) + 1, Len(final))
        /\ in_play' = FALSE
        /\ UNCHANGED player_cards
        /\ returned' = <<state', settle(dealer_sum', player_sum')>>
        /\ raised' = FALSE
        /\ last_call' = "STICK"

\* faulty variant of bust: 22 is not yet bust
bust_above_22(hand) == get_hand_sum(hand) > 22

\* faulty variant of bust: the bust test is missing
bust_never(hand) == FALSE

\* faulty variant of bust: 21 already counts as bust
bust_at_21(hand) == get_hand_sum(hand) >= 21

\* play_action, line 183: the player is bust
bust(hand) == get_hand_sum(hand) > 21

\* faulty variant of hit_drawing: the dealer is given the card as well
hit_drawing_dealer_too(c) ==
    /\ player_cards' = Append(player_cards, c)
    /\ dealer_cards' = Append(dealer_cards, c)
    /\ draws' = <<c, c>>
    /\ in_play' = IF bust(player_cards') THEN FALSE ELSE in_play
    /\ UNCHANGED turn
    /\ returned' = <<state', IF bust(player_cards') THEN -1 ELSE 0>>
    /\ raised' = FALSE
    /\ last_call' = "HIT"

\* play_action, the HIT branch, when draw_card returns c
hit_drawing(c) ==
    /\ player_cards' = Append(player_cards, c)
    /\ draws' = <<c>>
    /\ in_play' = IF bust(player_cards') THEN FALSE ELSE in_play
    /\ UNCHANGED <<dealer_cards, turn>>
    /\ returned' = <<state', IF bust(player_cards') THEN -1 ELSE 0>>
    /\ raised' = FALSE
    /\ last_call' = "HIT"

\* play_action, the HIT branch
hit ==
    /\ Len(player_cards) < 2 + MaxHits
    /\ \E c \in draw_card : hit_drawing(c)

\* faulty variant of rejected: the rejected call reopens the hand
rejected_reopens(action) ==
    /\ raised' = TRUE
    /\ returned' = <<>>
    /\ draws' = <<>>
    /\ last_call' = action
    /\ in_play' = TRUE
    /\ UNCHANGED <<player_cards, dealer_cards, turn>>

\* play_action, line 159: AssertionError, nothing else has run
rejected(action) ==
    /\ raised' = TRUE
    /\ returned' = <<>>
    /\ draws' = <<>>
    /\ last_call' = action
    /\ UNCHANGED <<player_cards, dealer_cards, turn, in_play>>

\* Blackjack.play_action
play_action(action) ==
    IF game_over THEN rejected(action)
    ELSE IF action = "STICK" THEN stick
    ELSE hit

Next == reset \/ \E action \in BlackjackAction : play_action(action)

Spec == Init /\ [][Next]_vars

----------------------------------------------------------------------------
(* The hand evaluator on its own: every hand of 1..MaxLen cards over the   *)
(* 13 faces, with returned = <<get_hand_sum(hand), usable_ace>>.           *)

InitHand ==
    \E c \in all_cards :
        /\ player_cards = <<c>>
        /\ dealer_cards = <<>>
        /\ turn = "player"
        /\ in_play = TRUE
        /\ last_call = "get_hand_sum"
        /\ raised = FALSE
        /\ draws = <<>>
        /\ returned = <<player_sum, usable_ace>>

evaluate_longer_hand ==
    \E c \in all_cards :
        /\ Len(player_cards) < MaxLen
        /\ player_cards' = Append(player_cards, c)
        /\ returned' = <<player_sum', usable_ace'>>
        /\ UNCHANGED <<dealer_cards, turn, in_play, last_call, raised, draws>>

NextHand == evaluate_longer_hand

SpecHand == InitHand /\ [][NextHand]_vars

----------------------------------------------------------------------------
(* The player's side over the whole deck: the player's cards are any of    *)
(* the 13 faces, the dealer's two cards are of the explored faces.         *)

InitPlayer ==
    \E p1 \in all_cards, p2 \in all_cards, d1 \in draw_card, d2 \in draw_card :
        constructed(p1, p2, d1, d2)

\* play_action(HIT) with any of the 13 faces drawn
hit_any_card ==
    /\ ~game_over
    /\ Len(player_cards) < 2 + MaxAnyHits
    /\ \E c \in all_cards : hit_drawing(c)

NextPlayer == hit_any_card

SpecPlayer == InitPlayer /\ [][NextPlayer]_vars

----------------------------------------------------------------------------
(* Properties.                                                             *)

has_ace(hand) == \E i \in 1..Len(hand) : hand[i].face = "A"

num_aces(hand) == Cardinality({i \in 1..Len(hand) : hand[i].face = "A"})

\* C1: a play_action call (HIT or STICK) made while in_play is false raises
\* instead of returning a pair, draws no card, and leaves the player hand, the
\* dealer hand, in_play and the turn marker as they were.
C1_RejectedWhenOver ==
    [][(~in_play /\ last_call' \in BlackjackAction)
         => /\ raised'
            /\ returned' = <<>>
            /\ draws' = <<>>
            /\ UNCHANGED <<player_cards, dealer_cards, in_play, turn>>]_vars

\* a STICK has ended the hand and a later play_action call was rejected
C1_Witness == raised /\ ~in_play /\ turn = "dealer" /\ last_call \in BlackjackAction

\* C2: every returned state has dealer_showing in 1..10 and player_sum in
\* 2..30, and its terminal flag is the negation of in_play at the return.
C2_ReturnedStateRanges ==
    ~raised =>
        /\ returned[1].dealer_showing \in 1..10
        /\ returned[1].player_sum \in 2..30
        /\ returned[1].terminal = ~in_play

\* C3: STICK on an in-play engine: the dealer draws while its total is below
\* 17 and no longer, in_play becomes false, the returned state is terminal and
\* the reward is +1 on a dealer bust, else -1, +1 or 0 as the dealer's total is
\* above, below or equal to the player's.
C3_StickSettles ==
    [][(in_play /\ last_call' = "STICK")
         => LET before == Len(dealer_cards)
                after  == Len(dealer_cards')
                d      == get_hand_sum(dealer_cards')
                p      == get_hand_sum(player_cards')
                reward == returned'[2]
            IN  /\ ~raised'
                /\ after >= before
                /\ SubSeq(dealer_cards', 1, before) = dealer_cards
                /\ draws' = SubSeq(dealer_cards', before + 1, after)
                /\ \A k \in before..(after - 1) :
                       get_hand_sum(SubSeq(dealer_cards', 1, k)) < 17
                /\ d >= 17
                /\ ~in_play'
                /\ returned'[1].terminal
                /\ (d > 21 => reward = 1)
                /\ (d <= 21 /\ d > p => reward = -1)
                /\ (d <= 21 /\ d < p => reward = 1)
                /\ (d <= 21 /\ d = p => reward = 0)]_vars

\* a player on 18 has stuck and the dealer has drawn to 22: reward +1
C3_Witness ==
    /\ last_call = "STICK" /\ ~raised
    /\ player_sum = 18 /\ dealer_sum = 22 /\ Len(dealer_cards) > 2
    /\ returned[2] = 1

\* C4: HIT on an in-play engine draws one card and appends it to the player's
\* hand; a new total above 21 ends the hand with reward -1 and a terminal
\* state, any other total (21 included) leaves it in play with reward 0 and a
\* non-terminal state.
C4_HitDrawsOne ==
    [][(in_play /\ last_call' = "HIT")
         => /\ ~raised'
            /\ Len(draws') = 1
            /\ player_cards' = Append(player_cards, draws'[1])
            /\ IF get_hand_sum(player_cards') > 21
               THEN ~in_play' /\ returned'[2] = -1 /\ returned'[1].terminal
               ELSE in_play' /\ returned'[2] = 0 /\ ~returned'[1].terminal]_vars

\* a HIT has brought the player to exactly 21 and the hand is still in play
C4_Witness ==
    /\ last_call = "HIT" /\ ~raised
    /\ player_sum = 21 /\ in_play /\ returned[2] = 0

\* C5: after reset, the constructor's included: if the player's two cards
\* total 21 the hand is over, the reward is +1 and the state is terminal,
\* whatever the dealer holds; otherwise the hand is in play, the reward is 0
\* and the state is not terminal.
C5_ResetNatural ==
    last_call \in {"__init__", "reset"} =>
        /\ ~raised
        /\ Len(player_cards) = 2
        /\ IF get_hand_sum(player_cards) = 21
           THEN ~in_play /\ returned[2] = 1 /\ returned[1].terminal
           ELSE in_play /\ returned[2] = 0 /\ ~returned[1].terminal

\* reset has dealt 21 to the player and 21 to the dealer
C5_Witness ==
    /\ last_call = "reset"
    /\ get_hand_sum(player_cards) = 21 /\ get_hand_sum(dealer_cards) = 21

\* the player's two dealt cards are an Ace and a ten-valued card
ace_and_ten ==
    /\ Len(player_cards) = 2
    /\ has_ace(player_cards)
    /\ \E i \in 1..2 : player_cards[i].value = 10

\* C6 as stated: a reset that deals the player an Ace and a ten-valued card
\* returns player_sum 21, usable_ace false, terminal true and reward +1.
C6_NaturalNoUsableAce ==
    (last_call = "reset" /\ ace_and_ten) =>
        /\ returned[1].player_sum = 21
        /\ returned[1].usable_ace = FALSE
        /\ returned[1].terminal = TRUE
        /\ returned[2] = 1

\* C6, amended: a reset that deals the player an Ace and a ten-valued card
\* returns player_sum 21, usable_ace true, terminal true and reward +1.
C6_NaturalUsableAce ==
    (last_call = "reset" /\ ace_and_ten) =>
        /\ returned[1].player_sum = 21
        /\ returned[1].usable_ace = TRUE
        /\ returned[1].terminal = TRUE
        /\ returned[2] = 1

\* reset has dealt the player A, K
C6_Witness ==
    /\ last_call = "reset"
    /\ player_cards = <<Card("A", 1), Card("K", 10)>>

\* C7: on every player hand the engine reaches, usable_ace is true iff
\* player_sum differs from the hard total (every Ace as 1), and iff the hand
\* holds an Ace and the hard total is below 12.
C7_UsableAceAgrees ==
    /\ usable_ace <=> (player_sum # value_sum(player_cards))
    /\ usable_ace <=> (has_ace(player_cards) /\ value_sum(player_cards) < 12)

\* the player has hit to a hand that holds an Ace and a hard total of 12 or more
C7_Witness ==
    /\ Len(player_cards) > 2
    /\ has_ace(player_cards)
    /\ value_sum(player_cards) >= 12
    /\ ~usable_ace

\* the totals of a hand with each Ace counted as 1 or as 11
ace_totals(hand) == {value_sum(hand) + 10 * k : k \in 0..num_aces(hand)}

\* the largest total up to 21 if there is one, else the total with every Ace as 1
best_total(hand) ==
    LET fit == {t \in ace_totals(hand) : t <= 21}
    IN  IF fit # {} THEN CHOOSE t \in fit : \A u \in fit : u <= t
        ELSE value_sum(hand)

\* C8: get_hand_sum of a non-empty hand over the 13 faces is the largest total
\* not above 21 obtainable by counting each Ace as 1 or 11 if there is one, and
\* the total with every Ace as 1 otherwise.
C8_BestTotal ==
    /\ player_cards # <<>>
    /\ returned[1] = best_total(player_cards)

\* a hand with two Aces or more of which one counts as 11
C8_Witness ==
    /\ num_aces(player_cards) >= 2
    /\ returned[1] = value_sum(player_cards) + 10

\* C9: for a hand with exactly one Ace whose other cards sum to r: if r <= 10,
\* usable_ace is true and the total is r + 11; if r >= 11, usable_ace is false
\* and the total is r + 1.
C9_OneAce ==
    num_aces(player_cards) = 1 =>
        LET r == value_sum(player_cards) - 1
        IN  /\ r <= 10 => returned = <<r + 11, TRUE>>
            /\ r >= 11 => returned = <<r + 1, FALSE>>

\* a hand with one Ace whose other cards sum to exactly 11
C9_Witness ==
    /\ num_aces(player_cards) = 1
    /\ value_sum(player_cards) = 12
    /\ returned = <<12, FALSE>>

\* C10: once in_play is false, only reset makes it true again.
C10_InPlayMonotonic ==
    [][(~in_play /\ in_play') => last_call' = "reset"]_vars

\* a HIT was rejected on a hand that ended on the player's turn (a natural or
\* a bust), and in_play is still false
C10_Witness ==
    /\ raised /\ last_call = "HIT" /\ turn = "player" /\ ~in_play

\* a is an initial segment of b
is_prefix(a, b) == Len(a) <= Len(b) /\ SubSeq(b, 1, Len(a)) = a

\* C11: after a reset, from whatever state it was called in, each hand holds
\* exactly the two newly drawn cards, the turn marker is 'player', and every
\* field later calls read (the hands, turn, in_play) and the returned pair are
\* a function of the four cards this reset drew.
C11_ResetDiscards ==
    last_call = "reset" =>
        LET p == SubSeq(draws, 1, 2)
            d == SubSeq(draws, 3, 4)
            over == get_hand_sum(p) = 21
        IN  /\ ~raised
            /\ Len(draws) = 4
            /\ player_cards = p
            /\ dealer_cards = d
            /\ turn = "player"
            /\ in_play = ~over
            /\ returned = << [player_sum     |-> get_hand_sum(p),
                              usable_ace     |-> hand_usable_ace(p),
                              dealer_showing |-> d[2].value,
                              terminal       |-> over],
                             IF over THEN 1 ELSE 0 >>

\* reset has dealt a hand that is in play
C11_Witness ==
    /\ last_call = "reset" /\ in_play
    /\ turn = "player" /\ Len(player_cards) = 2 /\ Len(dealer_cards) = 2

\* C12: each reset draws exactly four cards: the 1st and 2nd are the player's
\* hand, the 3rd and 4th the dealer's, and dealer_showing in the returned
\* state is the value of the 4th, an Ace showing as 1.
C12_DealOrder ==
    last_call \in {"__init__", "reset"} =>
        /\ Len(draws) = 4
        /\ player_cards = <<draws[1], draws[2]>>
        /\ dealer_cards = <<draws[3], draws[4]>>
        /\ returned[1].dealer_showing = draws[4].value
        /\ (draws[4].face = "A" => returned[1].dealer_showing = 1)

\* reset has dealt the dealer K then A, and the state shows 1
C12_Witness ==
    /\ last_call = "reset"
    /\ draws[3].face = "K" /\ draws[4].face = "A"
    /\ returned[1].dealer_showing = 1

\* C13: a play_action call, rejected or not, leaves every card already in
\* either hand in its place and only appends, so the dealer's second card and
\* the dealer_showing of the returned states stay the same within a hand.
C13_HandsOnlyGrow ==
    [][(last_call' \in BlackjackAction)
         => /\ is_prefix(player_cards, player_cards')
            /\ is_prefix(dealer_cards, dealer_cards')
            /\ dealer_cards'[2] = dealer_cards[2]
            /\ (~raised' => returned'[1].dealer_showing = dealer_cards[2].value)
            /\ (~raised /\ ~raised'
                  => returned'[1].dealer_showing = returned[1].dealer_showing)]_vars

\* both hands have grown: the player has hit, then stuck, and the dealer drew
C13_Witness ==
    /\ last_call = "STICK" /\ ~raised
    /\ Len(player_cards) > 2 /\ Len(dealer_cards) > 2
    /\ returned[1].dealer_showing = dealer_cards[2].value

\* C14: every returned reward is -1, 0 or 1, and a returned state that is
\* not terminal comes with reward 0.
C14_RewardRange ==
    ~raised =>
        /\ returned[2] \in {-1, 0, 1}
        /\ (~returned[1].terminal => returned[2] = 0)

\* a STICK lost to the dealer: reward -1 with a terminal state
C14_Witness ==
    /\ last_call = "STICK" /\ ~raised
    /\ returned[2] = -1 /\ returned[1].terminal

\* C15: all_states is the product of player_sum in 2..30, usable_ace in
\* {false, true}, dealer_showing in 1..10 and terminal in {false, true}, and
\* holds 29 * 2 * 10 * 2 = 1160 states; so a returned state is in all_states
\* exactly if its player_sum is at most 30.
C15_AllStates ==
    /\ ~raised => (returned[1] \in all_states <=> returned[1].player_sum <= 30)
    /\ all_states = [player_sum : 2..30, usable_ace : BOOLEAN,
                     dealer_showing : 1..10, terminal : BOOLEAN]
    /\ Cardinality(all_states) = 1160

\* a state the engine has returned is one of the 1160
C15_Witness ==
    /\ ~raised
    /\ returned[1] \in all_states
    /\ Cardinality(all_states) = 29 * 2 * 10 * 2

\* C16: every returned state that is not terminal has player_sum in 4..21
\* and is a member of all_states.
C16_NonTerminalInTable ==
    (~raised /\ ~returned[1].terminal) =>
        /\ returned[1].player_sum \in 4..21
        /\ returned[1] \in all_states

\* the player holds 2, 2: the lowest non-terminal state
C16_Witness ==
    /\ ~raised /\ ~returned[1].terminal
    /\ returned[1].player_sum = 4

\* C17: a play_action call on an in-play engine either ends the hand or is a
\* HIT that raises the player's hard total, which is at least the number of
\* cards held and at most 21 while the hand is in play (so at most 19 HITs
\* leave it in play); a STICK always ends it, and its dealer loop went on only
\* from dealer hands with a hard total of 16 or less, each card adding at
\* least 1.
C17_HandTerminates ==
    [][(in_play /\ last_call' \in BlackjackAction)
         => /\ \A c \in all_cards : c.value >= 1
            /\ last_call' = "STICK"
                 => /\ ~in_play'
                    /\ \A k \in Len(dealer_cards)..(Len(dealer_cards') - 1) :
                           value_sum(SubSeq(dealer_cards', 1, k)) <= 16
            /\ last_call' = "HIT"
                 => \/ ~in_play'
                    \/ /\ value_sum(player_cards') > value_sum(player_cards)
                       /\ Len(player_cards') <= value_sum(player_cards')
                       /\ value_sum(player_cards') <= 21]_vars

\* three HITs in a row have left the hand in play
C17_Witness ==
    /\ last_call = "HIT" /\ in_play
    /\ Len(player_cards) >= 5

\* C18: after a STICK the dealer's total is in 17..26, and a dealer whose two
\* dealt cards total 17 or more has drawn nothing.
C18_DealerTotal ==
    (last_call = "STICK" /\ ~raised) =>
        /\ dealer_sum \in 17..26
        /\ (get_hand_sum(SubSeq(dealer_cards, 1, 2)) >= 17 => Len(dealer_cards) = 2)

\* the dealer has drawn from 16 to 26
C18_Witness ==
    /\ last_call = "STICK" /\ ~raised
    /\ dealer_sum = 26

\* C19: HIT leaves the dealer's hand as it was and draws one card; STICK
\* leaves the player's hand as it was, and the player_sum and usable_ace it
\* returns are those of the state returned just before.
C19_Frame ==
    [][/\ (in_play /\ last_call' = "HIT")
            => /\ dealer_cards' = dealer_cards
               /\ Len(draws') = 1
       /\ (in_play /\ last_call' = "STICK")
            => /\ player_cards' = player_cards
               /\ returned'[1].player_sum = returned[1].player_sum
               /\ returned'[1].usable_ace = returned[1].usable_ace]_vars

\* a STICK on a hand with a usable Ace, after which the dealer drew
C19_Witness ==
    /\ last_call = "STICK" /\ ~raised
    /\ returned[1].usable_ace /\ Len(dealer_cards) > 2

====
